---- MODULE Spec2Model ----
(***************************************************************************)
(* The model runners of src/src/loadgen/runners.py: ModelRunnerInline, the  *)
(* three ModelRunnerPoolExecutor runners (thread pool, thread pool with     *)
(* thread-local models, process pool), ModelRunnerMultiProcessingPool and   *)
(* ModelRunnerRay.                                                          *)
(*                                                                          *)
(* One runner instance is modelled; `kind` says which class it is.  Of a    *)
(* second runner of the same class only its construction is modelled, for   *)
(* what it does to the state of the class.  The harness is one thread       *)
(* (MainThread) that calls __enter__, issue_query, flush_queries and        *)
(* __exit__, in any order and any number of times; every __enter__ makes a  *)
(* new executor (pool), and the threads of the executors made before go on  *)
(* with the work they were given.  The executors' worker threads (and, for  *)
(* the process pool, the executor's manager thread) run concurrently with   *)
(* the harness.  Statements that touch state shared between threads are     *)
(* separate steps.  Python asserts are enabled (the interpreter's default). *)
(***************************************************************************)
EXTENDS Naturals, Sequences, FiniteSets, TLC

\* ---------------------------------------------------------------- bounds
\* The largest max_concurrency a runner is configured with.
MaxConcurrency == 2
\* How many times the harness calls issue_query.
MaxIssues == 2
\* The harness calls flush_queries only while fewer than this many callback
\* invocations have been made.
MaxFlushed == 3
\* How many times the harness calls __enter__.
MaxEnters == 2
\* How many invocations of the harness's callback raise, with the pool
\* executor runners.
MaxCallbackErrors == 1
\* How many queries the harness issues to a pool executor runner, in all.
MaxUnits == 2

\* ---------------------------------------------------------------- data
InlineKind == "ModelRunnerInline"
ThreadKind == "ModelRunnerThreadPoolExecutor"
TLSKind == "ModelRunnerThreadPoolExecutorWithTLS"
ProcessKind == "ModelRunnerProcessPoolExecutor"
BatchKind == "ModelRunnerMultiProcessingPool"
RayKind == "ModelRunnerRay"

\* The subclasses of ModelRunnerPoolExecutor (the callback-draining runners).
PoolExecutorKinds == {ThreadKind, TLSKind, ProcessKind}
\* The classes that keep their Model in the class attribute `_model`.
ClassModelKinds == {ProcessKind, BatchKind}
Kinds == {InlineKind, BatchKind, RayKind} \cup PoolExecutorKinds

\* The input the model cannot predict (Model.predict raises for it).
FailInput == 0

\* A QueryInput: a dict QueryId -> ModelInput in its iteration order, as the
\* sequence of its (query_id, model_input) items; keys are unique.  The
\* batches the harness issues: the empty one, one query, one query that
\* fails, two queries, two queries with the keys in another order and other
\* inputs, two queries of which the first fails.
QueryInputs ==
    { <<>>,
      << <<1, 1>> >>,
      << <<2, FailInput>> >>,
      << <<1, 1>>, <<2, 2>> >>,
      << <<2, 1>>, <<1, 2>> >>,
      << <<1, FailInput>>, <<2, 2>> >> }

\* The batches the harness issues to the pool executor runners: the empty
\* one, one query, one query that fails, two queries whose inputs are not
\* their keys, two queries of which the first fails.
PoolQueryInputs ==
    { <<>>,
      << <<1, 1>> >>,
      << <<2, FailInput>> >>,
      << <<1, 2>>, <<2, 1>> >>,
      << <<1, FailInput>>, <<2, 2>> >> }

Keys(queries) == {queries[i][1] : i \in 1..Len(queries)}

\* The outcome of a call: a value, or the exception it raised.
Value(v) == [status |-> "ok", val |-> v]
Raised(e) == [status |-> e, val |-> 0]
NoResult == [status |-> "pending", val |-> 0]

\* Model.predict: an external capability.  It is a function of its input that
\* is not the identity, and it raises for FailInput.
Predict(input) ==
    IF input = FailInput THEN Raised("PredictionError") ELSE Value(10 + input)

\* The outcomes of one invocation of the harness's QueryCallback.
CallbackOutcomes == {"ok", "raise"}

\* ---------------------------------------------------------------- threads
MainThread == 0
\* The executors (pools) the runner makes, one per __enter__, by number, and
\* the threads of each: its worker threads (worker processes, for the
\* process pool) and the manager thread of a process pool.
Executors == 1..MaxEnters
PerExecutor == MaxConcurrency + 1
WorkersOf(g) == {(g - 1) * PerExecutor + i : i \in 1..MaxConcurrency}
ManagerOf(g) == g * PerExecutor
ThreadsOf(g) == WorkersOf(g) \cup {ManagerOf(g)}
Workers == UNION {WorkersOf(g) : g \in Executors}
ThreadIds == 0..(MaxEnters * PerExecutor)
\* The executor of thread t, and t's number among its threads.
GenOf(t) == ((t - 1) \div PerExecutor) + 1
SlotOf(t) == t - (GenOf(t) - 1) * PerExecutor

\* The Model instance that model_factory.create() returns in thread t.
NoModel == 0
ModelOf(t) == t + 1
\* The Model of the runner's own constructor.
OwnModel == ModelOf(MainThread)
\* The Model instance that the ModelFactory of a second runner creates.
OtherModel == MaxEnters * PerExecutor + 2

VARIABLES
    kind,         \* the runner's class
    max_concurrency, \* self.max_concurrency
    gen,          \* how many times __enter__ was called: the number of self.executor / self.pool
    executor,     \* self.executor: "None", "running" or "shutdown"
    futures,      \* self.futures: handle -> QueryId
    callback_fn,  \* self.callback_fn: 0 is None, n is the callback of the nth issue_query
    fut,          \* the Future objects, by handle: the executor's view of each unit of work
    work_queue,   \* by executor: its queue of work items (handles)
    result_queue, \* by executor, process pool: results the manager thread has not seen yet
    idle_sem,     \* by executor: its idle-worker semaphore
    th,           \* every thread's position
    iter,         \* MainThread: the items issue_query has still to submit
    tls,          \* ModelRunnerThreadPoolExecutorWithTLS.tls: 0 unset, t the threading.local of thread t
    tls_model,    \* by threading.local created: its attribute `model` per thread (0: not set)
    nmodels,      \* Model instances created by model_factory.create()
    class_model,  \* the class attribute `_model` (process pool, multiprocessing pool)
    proc_model,   \* by executor (pool): `_model` as its worker processes hold it, the value at their fork
    pool,         \* self.pool: "unset", "running", "terminated" (multiprocessing) or "shutdown" (Ray)
    actors,       \* ModelRunnerRay.pool: the ActorPool's idle actors, tasks in flight, pending submits
    got,          \* ModelRunnerRay: the results issue_query took from the pool, with their actor
    task,         \* ModelRunnerMultiProcessingPool.task: the MapResult, or NoTask
    logged,       \* exceptions the Future machinery caught in a completion hook and logged
    calls,        \* the invocations of QueryCallbacks, in order
    issued,       \* the issue_query calls made: their queries and outcome
    last          \* the harness's last finished call and its outcome

vars == <<kind, max_concurrency, gen, executor, futures, callback_fn, fut, work_queue,
          result_queue, idle_sem, th, iter, tls, tls_model, nmodels, class_model,
          proc_model, pool, actors, got, task, logged, calls, issued, last>>

\* What the constructor fixes.
config == <<kind, max_concurrency>>
\* The state of the executors and of their threads.
execvars == <<fut, work_queue, result_queue, idle_sem, tls, tls_model, nmodels>>
\* The state of ModelRunnerMultiProcessingPool.
batchvars == <<pool, task>>
\* The class attribute `_model` and its copy in the worker processes.
classvars == <<class_model, proc_model>>
\* The state of ModelRunnerRay's ActorPool.
rayvars == <<actors, got>>

NoTask == [set |-> FALSE, items |-> <<>>, results |-> <<>>, by |-> <<>>, batch |-> 0,
           gen |-> 0, live |-> FALSE]

\* An ActorPool over no actors.
NoActors == [idle |-> <<>>, inflight |-> <<>>, pending |-> <<>>]

\* A thread at pc: the unit of work it has in hand, the QueryId its hook has
\* popped, the Model its predictor has found.
Thread(pc) == [pc |-> pc, f |-> 0, qid |-> 0, model |-> NoModel]

\* ModelRunnerPoolExecutor.__init__ and the constructors of the other classes.
Init ==
    /\ kind \in Kinds
    /\ max_concurrency \in 1..MaxConcurrency
    /\ gen = 0
    /\ executor = "None"
    /\ futures = <<>>
    /\ logged = {}
    /\ callback_fn = 0
    /\ fut = <<>>
    /\ work_queue = [g \in Executors |-> <<>>]
    /\ result_queue = [g \in Executors |-> {}]
    /\ idle_sem = [g \in Executors |-> 0]
    /\ th = [t \in ThreadIds |->
                IF t = MainThread THEN Thread("idle") ELSE Thread("unborn")]
    /\ iter = <<>>
    /\ tls = 0
    /\ tls_model = [l \in Workers |-> [t \in Workers |-> NoModel]]
    /\ nmodels = IF kind \in {TLSKind, RayKind} THEN 0 ELSE 1
    /\ class_model = IF kind \in ClassModelKinds THEN OwnModel ELSE NoModel
    /\ proc_model = [g \in Executors |-> NoModel]
    /\ pool = "unset"
    /\ actors = NoActors
    /\ got = <<>>
    /\ task = NoTask
    /\ calls = <<>>
    /\ issued = <<>>
    /\ last = [op |-> "__init__", outcome |-> "ok"]


\* ------------------------------------------------------- ModelRunnerPoolExecutor

SetPc(t, pc) == [th EXCEPT ![t].pc = pc]

\* Mutant: the assert is gone.
AssertNoFuturesDisabled == TRUE

\* `assert not self.futures`
AssertNoFutures == DOMAIN futures = {}

\* The harness's nth issue_query call passes callback n.
NextCallback == Len(issued) + 1

Finish(op, outcome) == last' = [op |-> op, outcome |-> outcome]

SetOutcome(outcome) ==
    issued' = [issued EXCEPT ![Len(issued)].outcome = outcome]

\* Executor g is self.executor and takes work.
Open(g) == g = gen /\ executor = "running"

\* __enter__ of the three subclasses: self.executor is a new executor, whose
\* threads start lazily.  The executor that self.executor was before is left
\* as it is: not shut down by this call, and no longer referenced.
EnterPoolExecutor ==
    /\ kind \in PoolExecutorKinds
    /\ th[MainThread].pc = "idle"
    /\ gen < MaxEnters
    /\ gen' = gen + 1
    /\ executor' = "running"
    /\ Finish("__enter__", "ok")
    /\ UNCHANGED <<config, classvars, rayvars, futures, callback_fn, execvars, th,
                   iter, batchvars, logged, calls, issued>>

\* An issue_query call that fails its assert: it never looks at its queries.
Rejected == [queries |-> <<>>, outcome |-> "AssertionError"]

\* issue_query up to its loop: the assert, callback_fn and get_predictor.
IssueQueryPool(queries) ==
    /\ kind \in PoolExecutorKinds
    /\ th[MainThread].pc = "idle"
    /\ Len(issued) < MaxIssues
    /\ Len(fut) + Len(queries) <= MaxUnits
    /\ IF AssertNoFutures
       THEN /\ callback_fn' = NextCallback
            /\ iter' = queries
            /\ th' = SetPc(MainThread, "submit")
            /\ issued' = Append(issued, [queries |-> queries, outcome |-> "running"])
            /\ UNCHANGED last
       ELSE /\ issued' = Append(issued, Rejected)
            /\ Finish("issue_query", "AssertionError")
            /\ UNCHANGED <<callback_fn, iter, th>>
    /\ UNCHANGED <<config, classvars, rayvars, gen, executor, futures, execvars,
                   batchvars, logged, calls>>

\* Mutant: submit(predictor_fn, query_id), the key in place of the input.
NewFutureOfQueryId(item) ==
    [input |-> item[1], state |-> "PENDING", result |-> NoResult, cbs |-> FALSE,
     batch |-> Len(issued), qid |-> item[1], by |-> NoModel, gen |-> gen]

\* Mutant: the hook is registered when the Future is made, before
\* issue_query has recorded the handle.
NewFutureWithHook(item) ==
    [input |-> item[2], state |-> "PENDING", result |-> NoResult, cbs |-> TRUE,
     batch |-> Len(issued), qid |-> item[1], by |-> NoModel, gen |-> gen]

\* A new Future of self.executor for one (query_id, model_input) item.
NewFuture(item) ==
    [input |-> item[2], state |-> "PENDING", result |-> NoResult, cbs |-> FALSE,
     batch |-> Len(issued), qid |-> item[1], by |-> NoModel, gen |-> gen]

\* Mutant: an executor that does not look at max_workers.
UnbornOfAnyNumber ==
    IF gen = 0 THEN {} ELSE {t \in WorkersOf(gen) : th[t].pc = "unborn"}

\* ThreadPoolExecutor._adjust_thread_count / ProcessPoolExecutor's start of its
\* processes and manager thread, as submit() calls them: the threads of
\* self.executor that are not started, of its max_workers.
Unborn ==
    IF gen = 0 THEN {}
    ELSE {t \in WorkersOf(gen) : SlotOf(t) <= max_concurrency /\ th[t].pc = "unborn"}
FirstUnborn == CHOOSE t \in Unborn : \A u \in Unborn : t <= u
BornPc == IF kind = TLSKind THEN "init" ELSE "idle"

AdjustThreadCount(threads) ==
    IF kind = ProcessKind
    THEN [t \in ThreadIds |->
             IF t \in Unborn \cup {ManagerOf(gen)} /\ threads[t].pc = "unborn"
             THEN Thread("idle") ELSE threads[t]]
    ELSE IF idle_sem[gen] = 0 /\ Unborn # {}
         THEN [threads EXCEPT ![FirstUnborn] = Thread(BornPc)]
         ELSE threads

\* The process pool forks its worker processes in its first submit(); they
\* hold the class attributes as they are then.
ForksNow ==
    /\ kind = ProcessKind
    /\ th[MainThread].pc = "submit"
    /\ iter # <<>>
    /\ executor = "running"
    /\ th[ManagerOf(gen)].pc = "unborn"

\* The loop head, and `f = self.executor.submit(predictor_fn, model_input)`.
IssueQuerySubmit ==
    /\ th[MainThread].pc = "submit"
    /\ IF iter = <<>>
       THEN \* the loop is over: issue_query returns
            /\ th' = SetPc(MainThread, "idle")
            /\ SetOutcome("ok")
            /\ Finish("issue_query", "ok")
            /\ UNCHANGED <<fut, work_queue, idle_sem, proc_model>>
       ELSE IF executor # "running"
       THEN \* None has no submit (AttributeError); a shut down executor
            \* refuses new futures (RuntimeError)
            LET e == IF executor = "None" THEN "AttributeError" ELSE "RuntimeError"
            IN /\ th' = SetPc(MainThread, "idle")
               /\ SetOutcome(e)
               /\ Finish("issue_query", e)
               /\ UNCHANGED <<fut, work_queue, idle_sem, proc_model>>
       ELSE /\ fut' = Append(fut, NewFuture(Head(iter)))
            /\ work_queue' = [work_queue EXCEPT ![gen] = Append(@, Len(fut) + 1)]
            /\ idle_sem' = IF kind # ProcessKind /\ idle_sem[gen] > 0
                           THEN [idle_sem EXCEPT ![gen] = @ - 1] ELSE idle_sem
            /\ th' = [AdjustThreadCount(th) EXCEPT
                         ![MainThread] = [pc |-> "record", f |-> Len(fut) + 1,
                                          qid |-> Head(iter)[1], model |-> NoModel]]
            /\ proc_model' = IF ForksNow
                             THEN [proc_model EXCEPT ![gen] = class_model]
                             ELSE proc_model
            /\ UNCHANGED <<issued, last>>
    /\ UNCHANGED <<config, class_model, rayvars, gen, executor, futures, callback_fn,
                   result_queue, iter, tls, tls_model, nmodels, batchvars, logged,
                   calls>>

\* `self.futures[f] = query_id`
IssueQueryRecord ==
    /\ th[MainThread].pc = "record"
    /\ futures' = (th[MainThread].f :> th[MainThread].qid) @@ futures
    /\ th' = SetPc(MainThread, "add_done_callback")
    /\ UNCHANGED <<config, classvars, rayvars, gen, executor, callback_fn, execvars,
                   iter, batchvars, logged, calls, issued, last>>

\* Process pool: the work items of executor g that its manager thread has
\* put in the call queue (their Futures are running) and no worker has taken.
CallQueue(g, futs) ==
    {i \in 1..Len(work_queue[g]) : futs[work_queue[g][i]].state = "RUNNING"}

\* Process pool, add_call_item_to_queue: a work item waits, and the call
\* queue, of max_workers + EXTRA_QUEUED_CALLS (1) places, is not full.
Feedable(g, futs) ==
    /\ \E i \in 1..Len(work_queue[g]) : futs[work_queue[g][i]].state = "PENDING"
    /\ Cardinality(CallQueue(g, futs)) < max_concurrency + 1

\* The manager thread of a process pool at the head of its loop: it fills
\* the call queue ("feed") before it waits for a result or a wakeup ("idle").
ManagerLoop(g, futs) ==
    IF Feedable(g, futs) THEN Thread("feed") ELSE Thread("idle")

\* Where a thread goes on after its completion hook (or without one): the
\* harness with its loop, a worker thread with the release of the idle
\* semaphore, the manager thread of a process pool with the head of its loop.
AfterHook(t) ==
    CASE t = MainThread -> Thread("submit")
      [] t \in Workers -> Thread("release")
      [] OTHER -> ManagerLoop(GenOf(t), fut)

\* `f.add_done_callback(self._future_callback)`: the hook is appended to a
\* Future that is not done, and is called at once, in this thread, for one
\* that is.
IssueQueryAddDoneCallback ==
    /\ th[MainThread].pc = "add_done_callback"
    /\ LET f == th[MainThread].f
       IN IF fut[f].state = "FINISHED"
          THEN /\ th' = SetPc(MainThread, "cb_pop")
               /\ UNCHANGED <<fut, iter>>
          ELSE /\ fut' = [fut EXCEPT ![f].cbs = TRUE]
               /\ th' = [th EXCEPT ![MainThread] = Thread("submit")]
               /\ iter' = Tail(iter)
    /\ UNCHANGED <<config, classvars, rayvars, gen, executor, futures, callback_fn,
                   work_queue, result_queue, idle_sem, tls, tls_model, nmodels,
                   batchvars, logged, calls, issued, last>>

\* ------------------------------------------------------- the executor's threads

\* _tls_init, first statement: `tls = threading.local()` on the class.  The
\* threading.local that thread t creates is numbered t.
TlsInitLocal(t) ==
    /\ th[t].pc = "init"
    /\ tls' = t
    /\ th' = SetPc(t, "create")
    /\ UNCHANGED <<config, classvars, rayvars, gen, executor, futures, callback_fn,
                   fut, work_queue, result_queue, idle_sem, iter, tls_model, nmodels,
                   batchvars, logged, calls, issued, last>>

\* _tls_init, second statement, its right-hand side:
\* `model_factory.create()` makes the thread's Model.
TlsCreate(t) ==
    /\ th[t].pc = "create"
    /\ nmodels' = nmodels + 1
    /\ th' = [th EXCEPT ![t].pc = "init_model", ![t].model = ModelOf(t)]
    /\ UNCHANGED <<config, classvars, rayvars, gen, executor, futures, callback_fn,
                   fut, work_queue, result_queue, idle_sem, iter, tls, tls_model,
                   batchvars, logged, calls, issued, last>>

\* _tls_init, second statement, its assignment: `tls.model = ...` stores the
\* Model made, on the threading.local the class attribute holds now.
TlsInitModel(t) ==
    /\ th[t].pc = "init_model"
    /\ tls_model' = [tls_model EXCEPT ![tls][t] = th[t].model]
    /\ th' = [th EXCEPT ![t] = Thread("idle")]
    /\ UNCHANGED <<config, classvars, rayvars, gen, executor, futures, callback_fn,
                   fut, work_queue, result_queue, idle_sem, iter, tls, nmodels,
                   batchvars, logged, calls, issued, last>>

\* The Model instance the predictor of get_predictor() finds in thread t
\* (0: none): self.model, tls.model or the class's _model.
PredictorModel(t) ==
    CASE kind = TLSKind -> IF tls = 0 THEN NoModel ELSE tls_model[tls][t]
      [] kind = ProcessKind -> proc_model[GenOf(t)]
      [] OTHER -> OwnModel

\* The worker takes the next work item of its executor's queue and calls
\* predictor_fn; a worker thread sets the Future running, a worker process
\* takes what the manager thread has put in the call queue.
\* self.model.predict and the process's _model are fixed by now;
\* _tls_predict has yet to look for `tls.model`.
WorkerTake(t) ==
    /\ t \in Workers
    /\ th[t].pc = "idle"
    /\ work_queue[GenOf(t)] # <<>>
    /\ kind = ProcessKind => fut[Head(work_queue[GenOf(t)])].state = "RUNNING"
    /\ LET f == Head(work_queue[GenOf(t)])
       IN /\ work_queue' = [work_queue EXCEPT ![GenOf(t)] = Tail(@)]
          /\ fut' = [fut EXCEPT ![f].state = "RUNNING"]
          /\ th' = [th EXCEPT ![t] =
                       IF kind = TLSKind
                       THEN [pc |-> "lookup", f |-> f, qid |-> 0, model |-> NoModel]
                       ELSE [pc |-> "run", f |-> f, qid |-> 0,
                             model |-> PredictorModel(t)]]
    /\ UNCHANGED <<config, classvars, rayvars, gen, executor, futures, callback_fn,
                   result_queue, idle_sem, iter, tls, tls_model, nmodels, batchvars,
                   logged, calls, issued, last>>

\* _tls_predict, `ModelRunnerThreadPoolExecutorWithTLS.tls.model`: the
\* attribute `model` of the threading.local the class holds now, as this
\* thread sees it.  The prediction runs on what is found here.
TlsPredict(t) ==
    /\ th[t].pc = "lookup"
    /\ th' = [th EXCEPT ![t].pc = "run", ![t].model = PredictorModel(t)]
    /\ UNCHANGED <<config, classvars, rayvars, gen, executor, futures, callback_fn,
                   execvars, iter, batchvars, logged, calls, issued, last>>

\* predictor_fn(model_input) with the Model found: no Model is an
\* AttributeError.
Predictor(model, input) ==
    IF model = NoModel THEN Raised("AttributeError") ELSE Predict(input)

\* The thread goes on with the Future's done callbacks, if it has any.
InvokeCallbacks(t, f) ==
    IF fut[f].cbs THEN [pc |-> "cb_pop", f |-> f, qid |-> 0, model |-> NoModel]
    ELSE AfterHook(t)

\* _WorkItem.run from the return of the prediction on: set_result /
\* set_exception.  A worker thread sets the Future itself; a worker process
\* sends the result back and waits for the next item.
WorkerRun(t) ==
    /\ th[t].pc = "run"
    /\ LET f == th[t].f
           r == Predictor(th[t].model, fut[f].input)
       IN IF kind = ProcessKind
          THEN /\ result_queue' = [result_queue EXCEPT ![GenOf(t)] = @ \cup {<<f, r>>}]
               /\ fut' = [fut EXCEPT ![f].by = th[t].model]
               /\ th' = [th EXCEPT ![t] = Thread("idle")]
          ELSE /\ fut' = [fut EXCEPT ![f].state = "FINISHED", ![f].result = r,
                                     ![f].by = th[t].model]
               /\ th' = [th EXCEPT ![t] = InvokeCallbacks(t, f)]
               /\ UNCHANGED result_queue
    /\ UNCHANGED <<config, classvars, rayvars, gen, executor, futures, callback_fn,
                   work_queue, idle_sem, iter, tls, tls_model, nmodels, batchvars,
                   logged, calls, issued, last>>

\* ThreadPoolExecutor's worker after work_item.run():
\* `executor._idle_semaphore.release()`, then the next queue.get.
WorkerRelease(t) ==
    /\ th[t].pc = "release"
    /\ idle_sem' = [idle_sem EXCEPT ![GenOf(t)] = @ + 1]
    /\ th' = [th EXCEPT ![t] = Thread("idle")]
    /\ UNCHANGED <<config, classvars, rayvars, gen, executor, futures, callback_fn,
                   fut, work_queue, result_queue, iter, tls, tls_model, nmodels,
                   batchvars, logged, calls, issued, last>>

\* Process pool, the manager thread of executor g in add_call_item_to_queue:
\* the first work item that waits is set running and put in the call queue.
ManagerFeed(g) ==
    /\ kind = ProcessKind
    /\ th[ManagerOf(g)].pc \in {"idle", "feed"}
    /\ Feedable(g, fut)
    /\ LET i == CHOOSE j \in 1..Len(work_queue[g]) :
                   /\ fut[work_queue[g][j]].state = "PENDING"
                   /\ \A k \in 1..(j - 1) : fut[work_queue[g][k]].state # "PENDING"
           futs == [fut EXCEPT ![work_queue[g][i]].state = "RUNNING"]
       IN /\ fut' = futs
          /\ th' = [th EXCEPT ![ManagerOf(g)] = ManagerLoop(g, futs)]
    /\ UNCHANGED <<config, classvars, rayvars, gen, executor, futures, callback_fn,
                   work_queue, result_queue, idle_sem, iter, tls, tls_model, nmodels,
                   batchvars, logged, calls, issued, last>>

\* Process pool: the manager thread of executor g takes one result and sets
\* its Future.
ManagerTake(g) ==
    /\ th[ManagerOf(g)].pc = "idle"
    /\ \E x \in result_queue[g] :
          /\ result_queue' = [result_queue EXCEPT ![g] = @ \ {x}]
          /\ fut' = [fut EXCEPT ![x[1]].state = "FINISHED", ![x[1]].result = x[2]]
          /\ th' = [th EXCEPT ![ManagerOf(g)] = InvokeCallbacks(ManagerOf(g), x[1])]
    /\ UNCHANGED <<config, classvars, rayvars, gen, executor, futures, callback_fn,
                   work_queue, idle_sem, iter, tls, tls_model, nmodels, batchvars,
                   logged, calls, issued, last>>

\* The hook is over: the thread goes on, the harness with the next item.
HookReturns(t) ==
    /\ th' = [th EXCEPT ![t] = AfterHook(t)]
    /\ iter' = IF t = MainThread THEN Tail(iter) ELSE iter

TableWithout(f) == [h \in DOMAIN futures \ {f} |-> futures[h]]

\* Mutant: the hook asks for the result first and pops the handle after it,
\* so that a failed prediction ends the hook before the pop.
FutureCallbackPopAfterResult(t) ==
    /\ th[t].pc = "cb_pop"
    /\ LET f == th[t].f
       IN IF fut[f].result.status = "ok" /\ f \in DOMAIN futures
          THEN /\ futures' = TableWithout(f)
               /\ th' = [th EXCEPT ![t] = [pc |-> "cb_call", f |-> f,
                                           qid |-> futures[f], model |-> NoModel]]
               /\ UNCHANGED <<logged, iter>>
          ELSE /\ logged' = logged \cup {<<f, fut[f].result.status>>}
               /\ HookReturns(t)
               /\ UNCHANGED futures
    /\ UNCHANGED <<config, classvars, rayvars, gen, executor, callback_fn, fut,
                   work_queue, result_queue, idle_sem, tls, tls_model, nmodels,
                   batchvars, calls, issued, last>>

\* _future_callback, `query_id = self.futures.pop(f)`.  A KeyError ends the
\* hook; Future._invoke_callbacks logs it.
FutureCallbackPop(t) ==
    /\ th[t].pc = "cb_pop"
    /\ LET f == th[t].f
       IN IF f \in DOMAIN futures
          THEN /\ futures' = TableWithout(f)
               /\ th' = [th EXCEPT ![t] = [pc |-> "cb_call", f |-> f,
                                           qid |-> futures[f], model |-> NoModel]]
               /\ UNCHANGED <<logged, iter>>
          ELSE /\ logged' = logged \cup {<<f, "KeyError">>}
               /\ HookReturns(t)
               /\ UNCHANGED futures
    /\ UNCHANGED <<config, classvars, rayvars, gen, executor, callback_fn, fut,
                   work_queue, result_queue, idle_sem, tls, tls_model, nmodels,
                   batchvars, calls, issued, last>>

\* One invocation of a QueryCallback, as the harness sees it.
Call(cb, arg, batch) == [cb |-> cb, arg |-> arg, batch |-> batch]

\* The exceptions of the harness's callback that are logged.
CallbackErrors == {x \in logged : x[2] = "CallbackError"}

\* Mutant: the hook passes on whatever the Future holds, a failure as no value.
FutureCallbackCallAnyResult(t, outcome) ==
    /\ th[t].pc = "cb_call"
    /\ outcome = "ok"
    /\ LET f == th[t].f
           r == fut[f].result
       IN /\ calls' = Append(calls, Call(callback_fn, th[t].qid :> r.val,
                                         fut[f].batch))
          /\ UNCHANGED logged
    /\ HookReturns(t)
    /\ UNCHANGED <<config, classvars, rayvars, gen, executor, futures, callback_fn,
                   fut, work_queue, result_queue, idle_sem, tls, tls_model, nmodels,
                   batchvars, issued, last>>

\* _future_callback, `query_result = f.result()` and
\* `self.callback_fn({query_id: query_result})`.  f.result() raises what the
\* prediction raised; the Future machinery (_invoke_callbacks, or
\* add_done_callback in the harness's thread) logs it, and whatever the
\* callback raises, and the hook is over.
FutureCallbackCall(t, outcome) ==
    /\ th[t].pc = "cb_call"
    /\ LET f == th[t].f
           r == fut[f].result
       IN IF r.status = "ok"
          THEN /\ calls' = Append(calls, Call(callback_fn, th[t].qid :> r.val,
                                              fut[f].batch))
               /\ IF outcome = "ok"
                  THEN UNCHANGED logged
                  ELSE /\ Cardinality(CallbackErrors) < MaxCallbackErrors
                       /\ logged' = logged \cup {<<f, "CallbackError">>}
          ELSE /\ outcome = "ok"
               /\ logged' = logged \cup {<<f, r.status>>}
               /\ UNCHANGED calls
    /\ HookReturns(t)
    /\ UNCHANGED <<config, classvars, rayvars, gen, executor, futures, callback_fn,
                   fut, work_queue, result_queue, idle_sem, tls, tls_model, nmodels,
                   batchvars, issued, last>>

\* __exit__: nothing for `self.executor` None; else
\* `self.executor.shutdown(True)`, which waits for the executor's queued work
\* and for its threads (at once when it is shut down already).
ExitPoolExecutor ==
    /\ kind \in PoolExecutorKinds
    /\ th[MainThread].pc = "idle"
    /\ IF executor = "None"
       THEN /\ Finish("__exit__", "ok")
            /\ UNCHANGED <<executor, th>>
       ELSE /\ executor' = "shutdown"
            /\ th' = SetPc(MainThread, "shutdown")
            /\ UNCHANGED last
    /\ UNCHANGED <<config, classvars, rayvars, gen, futures, callback_fn, execvars,
                   iter, batchvars, logged, calls, issued>>

\* A worker leaves when its executor is shut down, or is no longer
\* self.executor (it is collected), and its queue is empty.
WorkerExit(t) ==
    /\ t \in Workers
    /\ th[t].pc = "idle"
    /\ ~Open(GenOf(t))
    /\ work_queue[GenOf(t)] = <<>>
    /\ th' = SetPc(t, "exited")
    /\ UNCHANGED <<config, classvars, rayvars, gen, executor, futures, callback_fn,
                   execvars, iter, batchvars, logged, calls, issued, last>>

Gone(t) == th[t].pc \in {"unborn", "exited"}

\* Process pool: the manager thread leaves after the last result.
ManagerExit(g) ==
    /\ th[ManagerOf(g)].pc = "idle"
    /\ ~Open(g)
    /\ result_queue[g] = {}
    /\ \A t \in WorkersOf(g) : Gone(t)
    /\ th' = SetPc(ManagerOf(g), "exited")
    /\ UNCHANGED <<config, classvars, rayvars, gen, executor, futures, callback_fn,
                   execvars, iter, batchvars, logged, calls, issued, last>>

\* shutdown(True) returns, and __exit__ with it: the threads of
\* self.executor are gone.
ExitPoolExecutorReturns ==
    /\ th[MainThread].pc = "shutdown"
    /\ \A t \in ThreadsOf(gen) : Gone(t)
    /\ th' = SetPc(MainThread, "idle")
    /\ Finish("__exit__", "ok")
    /\ UNCHANGED <<config, classvars, rayvars, gen, executor, futures, callback_fn,
                   execvars, iter, batchvars, logged, calls, issued>>

\* ------------------------------------------------------- ModelRunnerInline

\* Mutant: the loop runs over reversed(queries.items()).
RECURSIVE InlineLoopReversed(_, _, _, _, _)
InlineLoopReversed(queries, i, cb, raise_at, done) ==
    IF i > Len(queries) THEN [calls |-> done, outcome |-> "ok"]
    ELSE LET item == queries[Len(queries) + 1 - i]
             output == Predict(item[2])
             call == Call(cb, item[1] :> output.val, cb)
         IN IF output.status # "ok"
            THEN [calls |-> done, outcome |-> output.status]
            ELSE IF raise_at = i
            THEN [calls |-> Append(done, call), outcome |-> "CallbackError"]
            ELSE InlineLoopReversed(queries, i + 1, cb, raise_at, Append(done, call))

\* The loop of ModelRunnerInline.issue_query from item i on: predict, then the
\* callback, item by item; an exception of either ends the call.  raise_at is
\* the invocation at which the harness's callback raises (0: at none).
RECURSIVE InlineLoop(_, _, _, _, _)
InlineLoop(queries, i, cb, raise_at, done) ==
    IF i > Len(queries) THEN [calls |-> done, outcome |-> "ok"]
    ELSE LET output == Predict(queries[i][2])
             call == Call(cb, queries[i][1] :> output.val, cb)
         IN IF output.status # "ok"
            THEN [calls |-> done, outcome |-> output.status]
            ELSE IF raise_at = i
            THEN [calls |-> Append(done, call), outcome |-> "CallbackError"]
            ELSE InlineLoop(queries, i + 1, cb, raise_at, Append(done, call))

\* ModelRunnerInline.issue_query, the whole call.
IssueQueryInline(queries, raise_at) ==
    /\ kind = InlineKind
    /\ Len(issued) < MaxIssues
    /\ LET run == InlineLoop(queries, 1, NextCallback, raise_at, <<>>)
       IN /\ calls' = calls \o run.calls
          /\ issued' = Append(issued, [queries |-> queries, outcome |-> run.outcome])
          /\ Finish("issue_query", run.outcome)
    /\ UNCHANGED <<config, classvars, rayvars,
                   gen, executor, futures, callback_fn, execvars, th, iter,
                   batchvars, logged>>

\* ModelRunnerInline has no __exit__ of its own: the one it inherits from
\* ModelRunner (loadgen.harness) has nothing of the runner to tear down.
ExitInline ==
    /\ kind = InlineKind
    /\ Finish("__exit__", "ok")
    /\ UNCHANGED <<config, classvars, rayvars, gen, executor, futures, callback_fn,
                   execvars, th, iter, batchvars, logged, calls, issued>>

\* ------------------------------------------------ ModelRunnerMultiProcessingPool

\* __enter__: `self.pool = multiprocessing.Pool(self.max_concurrency)`; the
\* Pool forks its worker processes at once.  The Pool that self.pool was
\* before is left as it is; a MapResult of it keeps it at work.
EnterMultiProcessingPool ==
    /\ kind = BatchKind
    /\ th[MainThread].pc = "idle"
    /\ gen < MaxEnters
    /\ gen' = gen + 1
    /\ pool' = "running"
    /\ proc_model' = [proc_model EXCEPT ![gen + 1] = class_model]
    /\ Finish("__enter__", "ok")
    /\ UNCHANGED <<config, class_model, rayvars, executor, futures, callback_fn,
                   execvars, th, iter, task, logged, calls, issued>>

\* __exit__: `if self.pool:` is an AttributeError before __enter__;
\* `self.pool.terminate()` stops the worker processes of self.pool at once
\* (and does nothing to a terminated Pool).
ExitMultiProcessingPool ==
    /\ kind = BatchKind
    /\ th[MainThread].pc = "idle"
    /\ IF pool = "unset"
       THEN /\ Finish("__exit__", "AttributeError")
            /\ UNCHANGED <<pool, task>>
       ELSE /\ pool' = "terminated"
            /\ task' = IF task.set /\ task.gen = gen
                       THEN [task EXCEPT !.live = FALSE] ELSE task
            /\ Finish("__exit__", "ok")
    /\ UNCHANGED <<config, classvars, rayvars, gen, executor, futures, callback_fn,
                   execvars, th, iter, logged, calls, issued>>

\* `assert self.task is None` and `assert self.callback_fn is None`
AssertNoTask == ~task.set /\ callback_fn = 0

\* pool.starmap_async(_predict_with_id, inputs): the MapResult, of the Pool
\* that self.pool is now, whose worker processes are at work on it.
MapResult(queries, batch) ==
    [set |-> TRUE, items |-> queries,
     results |-> [i \in 1..Len(queries) |-> NoResult],
     by |-> [i \in 1..Len(queries) |-> NoModel], batch |-> batch,
     gen |-> gen, live |-> TRUE]

\* ModelRunnerMultiProcessingPool.issue_query, the whole call.  self.pool is
\* no attribute before __enter__ (AttributeError), and a terminated pool
\* takes no work (ValueError).
IssueQueryBatch(queries) ==
    /\ kind = BatchKind
    /\ th[MainThread].pc = "idle"
    /\ Len(issued) < MaxIssues
    /\ IF ~AssertNoTask
       THEN /\ issued' = Append(issued, Rejected)
            /\ Finish("issue_query", "AssertionError")
            /\ UNCHANGED <<callback_fn, task>>
       ELSE LET outcome == CASE pool = "running" -> "ok"
                             [] pool = "unset" -> "AttributeError"
                             [] OTHER -> "ValueError"
            IN /\ callback_fn' = NextCallback
               /\ task' = IF outcome = "ok"
                          THEN MapResult(queries, NextCallback) ELSE task
               /\ issued' = Append(issued, [queries |-> queries, outcome |-> outcome])
               /\ Finish("issue_query", outcome)
    /\ UNCHANGED <<config, classvars, rayvars, gen, executor, futures, execvars, th,
                   iter, pool, logged, calls>>

\* starmap_async cuts its inputs into chunks of ceil(len / (4 * processes))
\* items; a worker process runs the items of a chunk in order, and an item
\* that raises ends its chunk.
ChunkSize(t) ==
    (Len(t.items) + 4 * max_concurrency - 1) \div (4 * max_concurrency)
ChunkOf(t, i) == (i - 1) \div ChunkSize(t)
\* The items before item i in its chunk.
EarlierInChunk(t, i) == {j \in 1..(i - 1) : ChunkOf(t, j) = ChunkOf(t, i)}
\* Item i is not run: an item before it in its chunk has raised.
Skipped(t, i) == \E j \in EarlierInChunk(t, i) : t.results[j].status \notin {"ok", "pending"}

\* _predict_with_id in a worker process of the task's Pool, for one item of
\* the grouped task: the next item of its chunk.
PredictWithId(i) ==
    /\ kind = BatchKind
    /\ task.set
    /\ task.live
    /\ i \in 1..Len(task.items)
    /\ task.results[i] = NoResult
    /\ \A j \in EarlierInChunk(task, i) : task.results[j].status = "ok"
    /\ task' = [task EXCEPT !.results[i] = Predict(task.items[i][2]),
                             !.by[i] = proc_model[task.gen]]
    /\ UNCHANGED <<config, classvars, rayvars, gen, executor, futures, callback_fn,
                   execvars, th, iter, pool, logged, calls, issued, last>>

\* The MapResult is ready once every chunk is done: each of its items has
\* its result, or is not run.
Ready(t) == \A i \in 1..Len(t.items) : t.results[i] # NoResult \/ Skipped(t, i)
Failed(t) == \E i \in 1..Len(t.items) : t.results[i].status # "ok"

\* Mutant: flush_queries returns when there is no task
\* (`if self.task is None: return`).
FlushQueriesUnlessNone ==
    /\ kind = BatchKind
    /\ th[MainThread].pc = "idle"
    /\ Len(calls) < MaxFlushed
    /\ IF task.set
       THEN /\ th' = SetPc(MainThread, "get")
            /\ UNCHANGED last
       ELSE /\ Finish("flush_queries", "ok")
            /\ UNCHANGED th
    /\ UNCHANGED <<config, classvars, rayvars, gen, executor, futures, callback_fn,
                   execvars, iter, batchvars, logged, calls, issued>>

\* flush_queries up to `self.task.get()`: None has no get (AttributeError);
\* else the call waits for the MapResult.
FlushQueries ==
    /\ kind = BatchKind
    /\ th[MainThread].pc = "idle"
    /\ Len(calls) < MaxFlushed
    /\ IF task.set
       THEN /\ th' = SetPc(MainThread, "get")
            /\ UNCHANGED last
       ELSE /\ Finish("flush_queries", "AttributeError")
            /\ UNCHANGED th
    /\ UNCHANGED <<config, classvars, rayvars, gen, executor, futures, callback_fn,
                   execvars, iter, batchvars, logged, calls, issued>>

\* Mutant: the mapping is keyed by position (`enumerate(task_result)`).
ResultMappingByPosition(t) ==
    [i \in 1..Len(t.items) |-> t.results[i].val]

\* `{query_id: query_result for query_id, query_result in task_result}`
ResultMapping(t) ==
    [q \in Keys(t.items) |->
        t.results[CHOOSE i \in 1..Len(t.items) : t.items[i][1] = q].val]

\* Mutant: flush_queries delivers what it has, the failed predictions as no
\* value, and reports the failure after that.
FlushQueriesReturnsPartial(outcome) ==
    /\ th[MainThread].pc = "get"
    /\ Ready(task)
    /\ th' = SetPc(MainThread, "idle")
    /\ calls' = Append(calls, Call(callback_fn, ResultMapping(task), task.batch))
    /\ task' = NoTask
    /\ callback_fn' = 0
    /\ Finish("flush_queries", IF Failed(task) THEN "PredictionError" ELSE "ok")
    /\ UNCHANGED <<config, classvars, rayvars, gen, executor, futures, execvars,
                   iter, pool, logged, issued>>

\* flush_queries from the return of `self.task.get()` on: get() raises what a
\* prediction raised; else the callback is called with the batch's results,
\* and task and callback_fn are reset once it has returned.
FlushQueriesReturns(outcome) ==
    /\ th[MainThread].pc = "get"
    /\ Ready(task)
    /\ th' = SetPc(MainThread, "idle")
    /\ IF Failed(task)
       THEN /\ Finish("flush_queries", "PredictionError")
            /\ UNCHANGED <<task, callback_fn, calls>>
       ELSE /\ calls' = Append(calls, Call(callback_fn, ResultMapping(task),
                                           task.batch))
            /\ IF outcome = "ok"
               THEN /\ task' = NoTask
                    /\ callback_fn' = 0
                    /\ Finish("flush_queries", "ok")
               ELSE /\ Finish("flush_queries", "CallbackError")
                    /\ UNCHANGED <<task, callback_fn>>
    /\ UNCHANGED <<config, classvars, rayvars, gen, executor, futures, execvars,
                   iter, pool, logged, issued>>

\* ------------------------------------------------------- a second runner

\* The constructor of a second ModelRunnerProcessPoolExecutor or
\* ModelRunnerMultiProcessingPool, called by the harness's thread:
\* `<class>._model = model_factory.create()` assigns the attribute of the
\* class, which the first runner's predictor reads too.
ConstructSecondRunner ==
    /\ kind \in ClassModelKinds
    /\ th[MainThread].pc = "idle"
    /\ class_model = OwnModel
    /\ class_model' = OtherModel
    /\ nmodels' = nmodels + 1
    /\ UNCHANGED <<config, proc_model, rayvars, gen, executor, futures, callback_fn,
                   fut, work_queue, result_queue, idle_sem, th, iter, tls, tls_model,
                   batchvars, logged, calls, issued, last>>

\* ------------------------------------------------------- ModelRunnerRay

\* The batches the harness issues to ModelRunnerRay: those above, and two
\* queries of which the second fails.
RayQueryInputs == QueryInputs \cup { << <<1, 1>>, <<2, FailInput>> >> }

\* ActorPool.has_next
HasNext(p) == p.inflight # <<>>

\* The tasks the ActorPool holds: in flight, and waiting for an actor.
Leftover(p) == Len(p.inflight) + Len(p.pending)

\* ActorPool.submit(fn, v): the last idle actor runs predict.remote(v), or
\* the submit waits for an actor to come back.  v is the (query_id,
\* model_input) item with the number of the issue_query call it is of.
ActorSubmit(p, v) ==
    IF p.idle # <<>>
    THEN [p EXCEPT !.idle = SubSeq(p.idle, 1, Len(p.idle) - 1),
                   !.inflight = Append(p.inflight,
                                       [item |-> v.item, batch |-> v.batch,
                                        actor |-> p.idle[Len(p.idle)]])]
    ELSE [p EXCEPT !.pending = Append(p.pending, v)]

\* ActorPool.get_next up to its ray.get: the oldest task leaves the pool,
\* its actor is idle again and takes the first pending submit.
ActorReturn(p) ==
    LET a == Head(p.inflight).actor
        q == [p EXCEPT !.inflight = Tail(p.inflight), !.idle = Append(p.idle, a)]
    IN IF p.pending # <<>>
       THEN ActorSubmit([q EXCEPT !.pending = Tail(p.pending)], Head(p.pending))
       ELSE q

\* RayModel.predict in its actor: (query_id, self.model.predict(input)).
RayPredict(item) == Predict(item[2])

\* Mutant: map() without its first loop: what is left over stays in the pool.
ActorDrainNothing(p, ready, i) == [pool |-> p, outcome |-> "ok"]

\* ActorPool.map, its first loop: the tasks left over from earlier calls are
\* taken out with get_next(timeout=0, ignore_if_timedout=True).  A task that
\* is not ready is dropped; one that is ready is handed to ray.get, which
\* raises what the prediction raised.  `ready` holds the positions, in this
\* loop, of the tasks that are ready; i is the position of the next one.
RECURSIVE ActorDrain(_, _, _)
ActorDrain(p, ready, i) ==
    IF ~HasNext(p) THEN [pool |-> p, outcome |-> "ok"]
    ELSE LET r == RayPredict(Head(p.inflight).item)
         IN IF i \in ready /\ r.status # "ok"
            THEN [pool |-> ActorReturn(p), outcome |-> r.status]
            ELSE ActorDrain(ActorReturn(p), ready, i + 1)

\* ActorPool.map, its second loop: `for v in values: self.submit(fn, v)`.
RECURSIVE ActorSubmitAll(_, _, _, _)
ActorSubmitAll(p, queries, batch, i) ==
    IF i > Len(queries) THEN p
    ELSE ActorSubmitAll(ActorSubmit(p, [item |-> queries[i], batch |-> batch]),
                        queries, batch, i + 1)

\* The loop of ModelRunnerRay.issue_query over the generator that map()
\* returns: get_next() while has_next(), and the callback for each result.
\* A failed prediction (ray.get raises it) or a callback that raises ends
\* the call, and what is not taken yet stays in the pool.  n counts the
\* callback invocations; raise_at is the one at which the callback raises.
RECURSIVE RayLoop(_, _, _, _, _, _)
RayLoop(p, cb, raise_at, n, done, taken) ==
    IF ~HasNext(p)
    THEN [pool |-> p, calls |-> done, got |-> taken, outcome |-> "ok"]
    ELSE LET head == Head(p.inflight)
             r == RayPredict(head.item)
             call == Call(cb, head.item[1] :> r.val, head.batch)
             t == Append(taken, [qid |-> head.item[1], actor |-> head.actor,
                                 batch |-> head.batch])
         IN IF r.status # "ok"
            THEN [pool |-> ActorReturn(p), calls |-> done, got |-> taken,
                  outcome |-> r.status]
            ELSE IF raise_at = n
            THEN [pool |-> ActorReturn(p), calls |-> Append(done, call), got |-> t,
                  outcome |-> "CallbackError"]
            ELSE RayLoop(ActorReturn(p), cb, raise_at, n + 1, Append(done, call), t)

\* The RayModel actors that the gth __enter__ makes.
RayActors(g) == {(g - 1) * MaxConcurrency + a : a \in 1..max_concurrency}

\* __enter__: max_concurrency new RayModel actors, each with the Model its
\* constructor creates, and a new ActorPool over them (the first .remote()
\* call starts Ray when it is not initialized).
EnterRay ==
    /\ kind = RayKind
    /\ gen < MaxEnters
    /\ gen' = gen + 1
    /\ pool' = "running"
    /\ actors' = [NoActors EXCEPT
                     !.idle = [a \in 1..max_concurrency |-> gen * MaxConcurrency + a]]
    /\ nmodels' = nmodels + max_concurrency
    /\ Finish("__enter__", "ok")
    /\ UNCHANGED <<config, classvars, got, executor, futures, callback_fn, fut,
                   work_queue, result_queue, idle_sem, th, iter, tls, tls_model,
                   task, logged, calls, issued>>

\* __exit__: ray.shutdown() when Ray is initialized, which it is from
\* __enter__ to the next __exit__; nothing otherwise.
ExitRay ==
    /\ kind = RayKind
    /\ pool' = IF pool = "running" THEN "shutdown" ELSE pool
    /\ Finish("__exit__", "ok")
    /\ UNCHANGED <<config, classvars, rayvars, gen, executor, futures, callback_fn,
                   execvars, th, iter, task, logged, calls, issued>>

\* ModelRunnerRay.issue_query, the whole call.  Before __enter__ there is no
\* self.pool (AttributeError).  After ray.shutdown() the actors cannot be
\* called and their tasks cannot be asked for (RaySystemError); a call with
\* no queries on a pool that holds no task does neither, and returns.
IssueQueryRay(queries, raise_at, ready) ==
    /\ kind = RayKind
    /\ Len(issued) < MaxIssues
    /\ IF pool # "running"
       THEN LET e == CASE pool = "unset" -> "AttributeError"
                       [] queries = <<>> /\ ~HasNext(actors) -> "ok"
                       [] OTHER -> "RaySystemError"
            IN /\ issued' = Append(issued, [queries |-> queries, outcome |-> e])
               /\ Finish("issue_query", e)
               /\ UNCHANGED <<actors, got, calls>>
       ELSE LET drained == ActorDrain(actors, ready, 1)
                run == IF drained.outcome # "ok"
                       THEN [pool |-> drained.pool, calls |-> <<>>, got |-> <<>>,
                             outcome |-> drained.outcome]
                       ELSE RayLoop(ActorSubmitAll(drained.pool, queries,
                                                   NextCallback, 1),
                                    NextCallback, raise_at, 1, <<>>, <<>>)
            IN /\ actors' = run.pool
               /\ calls' = calls \o run.calls
               /\ got' = got \o run.got
               /\ issued' = Append(issued, [queries |-> queries,
                                            outcome |-> run.outcome])
               /\ Finish("issue_query", run.outcome)
    /\ UNCHANGED <<config, classvars, gen, executor, futures, callback_fn, execvars,
                   th, iter, batchvars, logged>>

\* ------------------------------------------------------- the system

Next ==
    \/ \E queries \in QueryInputs : \E raise_at \in 0..Len(queries) :
          IssueQueryInline(queries, raise_at)
    \/ ExitInline
    \/ EnterPoolExecutor
    \/ \E queries \in PoolQueryInputs : IssueQueryPool(queries)
    \/ IssueQuerySubmit
    \/ IssueQueryRecord
    \/ IssueQueryAddDoneCallback
    \/ \E t \in Workers : TlsInitLocal(t)
    \/ \E t \in Workers : TlsCreate(t)
    \/ \E t \in Workers : TlsInitModel(t)
    \/ \E t \in Workers : WorkerTake(t)
    \/ \E t \in Workers : TlsPredict(t)
    \/ \E t \in Workers : WorkerRun(t)
    \/ \E t \in Workers : WorkerRelease(t)
    \/ \E g \in Executors : ManagerFeed(g)
    \/ \E g \in Executors : ManagerTake(g)
    \/ \E t \in ThreadIds : FutureCallbackPop(t)
    \/ \E t \in ThreadIds : \E outcome \in CallbackOutcomes :
          FutureCallbackCall(t, outcome)
    \/ ExitPoolExecutor
    \/ \E t \in Workers : WorkerExit(t)
    \/ \E g \in Executors : ManagerExit(g)
    \/ ExitPoolExecutorReturns
    \/ EnterMultiProcessingPool
    \/ \E queries \in QueryInputs : IssueQueryBatch(queries)
    \/ \E i \in 1..Len(task.items) : PredictWithId(i)
    \/ FlushQueries
    \/ \E outcome \in CallbackOutcomes : FlushQueriesReturns(outcome)
    \/ ExitMultiProcessingPool
    \/ ConstructSecondRunner
    \/ EnterRay
    \/ \E queries \in RayQueryInputs : \E raise_at \in 0..Len(queries) :
          \E ready \in SUBSET (1..Leftover(actors)) :
             IssueQueryRay(queries, raise_at, ready)
    \/ ExitRay

Spec == Init /\ [][Next]_vars

\* The steps of the harness's thread inside issue_query, its inline
\* completion hooks included.
MainStep ==
    \/ IssueQuerySubmit
    \/ IssueQueryRecord
    \/ IssueQueryAddDoneCallback
    \/ FutureCallbackPop(MainThread)
    \/ \E outcome \in CallbackOutcomes : FutureCallbackCall(MainThread, outcome)

\* The steps of worker thread (worker process) t at work.
WorkerStep(t) ==
    \/ TlsInitLocal(t)
    \/ TlsCreate(t)
    \/ TlsInitModel(t)
    \/ WorkerTake(t)
    \/ TlsPredict(t)
    \/ WorkerRun(t)
    \/ FutureCallbackPop(t)
    \/ \E outcome \in CallbackOutcomes : FutureCallbackCall(t, outcome)
    \/ WorkerRelease(t)

\* The steps of the manager thread of process pool g at work.
ManagerStep(g) ==
    \/ ManagerFeed(g)
    \/ ManagerTake(g)
    \/ FutureCallbackPop(ManagerOf(g))
    \/ \E outcome \in CallbackOutcomes : FutureCallbackCall(ManagerOf(g), outcome)

\* The threads of a process run when they can: the harness's thread inside
\* issue_query, the executors' workers and manager threads.  What the
\* harness calls, and when, is up to it.
Fairness ==
    /\ WF_vars(MainStep)
    /\ \A t \in Workers : WF_vars(WorkerStep(t))
    /\ \A g \in Executors : WF_vars(ManagerStep(g))

FairSpec == Spec /\ Fairness

\* ------------------------------------------------------- what the harness sees

\* The input submitted under QueryId q by the bth issue_query call.
InputOf(b, q) ==
    LET queries == issued[b].queries
    IN queries[CHOOSE i \in 1..Len(queries) : queries[i][1] = q][2]

\* The invocations that carry a result of QueryId q of batch b.
Deliveries(b, q) ==
    {i \in 1..Len(calls) : calls[i].batch = b /\ q \in DOMAIN calls[i].arg}

\* The units of work of batch b.
Units(b) == {f \in 1..Len(fut) : fut[f].batch = b}

\* A thread is in the completion hook of unit f.
InHook(f) == \E t \in ThreadIds : th[t].pc \in {"cb_pop", "cb_call"} /\ th[t].f = f

\* issue_query b returned, and all its units are done, hooks included.
Drained(b) ==
    /\ b <= Len(issued)
    /\ issued[b].outcome = "ok"
    /\ \A f \in Units(b) : fut[f].state = "FINISHED" /\ ~InHook(f)

\* ------------------------------------------------------------------- C1
\* C1: in the callback-draining pool runners no QueryId of a batch is passed
\* to a callback more than once, and every invocation carries a single-entry
\* mapping {QueryId: predict(the ModelInput submitted under that QueryId)}.
C1_ExactlyOnceValue ==
    kind \in PoolExecutorKinds =>
        \A i \in 1..Len(calls) :
            LET c == calls[i]
            IN /\ c.batch \in 1..Len(issued)
               /\ \E q \in Keys(issued[c.batch].queries) :
                     /\ DOMAIN c.arg = {q}
                     /\ Predict(InputOf(c.batch, q)) = Value(c.arg[q])
                     /\ Deliveries(c.batch, q) = {i}

\* Two workers have delivered the two queries of one batch, the second
\* submitted first.
C1_Witness ==
    /\ kind \in PoolExecutorKinds
    /\ Len(calls) = 2
    /\ calls[1].batch = calls[2].batch
    /\ DOMAIN calls[1].arg = {2}
    /\ DOMAIN calls[2].arg = {1}
    /\ issued[calls[1].batch].queries = << <<1, 2>>, <<2, 1>> >>

\* ------------------------------------------------------------------- C2
\* Model.predict returns a value for every input of batch b.
Predictable(b) ==
    \A i \in 1..Len(issued[b].queries) :
        Predict(issued[b].queries[i][2]).status = "ok"

\* The runner is acquired and not released since batch b was issued: the
\* executor that took the batch is self.executor, and is not shut down.
StillAcquired(b) ==
    /\ executor = "running"
    /\ \A f \in Units(b) : fut[f].gen = gen

\* C2: when issue_query has taken a batch whose inputs the model can all
\* predict, the runner stays acquired and the threads are scheduled fairly,
\* every QueryId of the batch is eventually delivered to a callback, also
\* when the batch is larger than max_concurrency.
C2_EventuallyDelivered ==
    \A b \in 1..MaxIssues :
        (/\ kind \in PoolExecutorKinds
         /\ Len(issued) >= b
         /\ issued[b].outcome = "ok"
         /\ Predictable(b)
         /\ StillAcquired(b))
            ~> (/\ Len(issued) >= b
                /\ \/ ~StillAcquired(b)
                   \/ \A q \in Keys(issued[b].queries) : Deliveries(b, q) # {})

\* ------------------------------------------------------------------- C3
\* C3: issue_query accepts a new batch only after the callback has been
\* invoked for every result of the batch before: there is no state in which
\* a later issue_query has been accepted while a completion hook of an
\* earlier batch has removed its handle and not yet called the callback.
C3_AcceptedOnlyAfterDelivery ==
    \A t \in ThreadIds :
        (th[t].pc = "cb_call" /\ fut[th[t].f].result.status = "ok") =>
            ~ /\ fut[th[t].f].batch < Len(issued)
              /\ issued[Len(issued)].outcome \in {"running", "ok"}

\* ------------------------------------------------------------------- C4
\* The invocations made for batch b, in order.
CallsOf(b) == SelectSeq(calls, LAMBDA c : c.batch = b)

\* C4: ModelRunnerInline.issue_query invokes the callback once per item of
\* the batch, in the batch's iteration order, each time with the single-entry
\* mapping {QueryId: predict(ModelInput)}; when it returns, all invocations
\* have been made, and when it raises, those of a prefix of the batch.
C4_InlineInOrder ==
    kind = InlineKind =>
        \A b \in 1..Len(issued) :
            LET queries == issued[b].queries
                made == CallsOf(b)
            IN /\ Len(made) <= Len(queries)
               /\ issued[b].outcome = "ok" => Len(made) = Len(queries)
               /\ \A i \in 1..Len(made) :
                     /\ made[i].cb = b
                     /\ DOMAIN made[i].arg = {queries[i][1]}
                     /\ Predict(queries[i][2]) = Value(made[i].arg[queries[i][1]])

\* A batch whose keys are not in ascending order has been served.
C4_Witness ==
    /\ kind = InlineKind
    /\ Len(issued) = 1
    /\ issued[1] = [queries |-> << <<2, 1>>, <<1, 2>> >>, outcome |-> "ok"]
    /\ Len(calls) = 2

\* ------------------------------------------------------------------- C5
\* The runner is Pending: the handle table is not empty, or a grouped task
\* has not been flushed.
Pending ==
    \/ kind \in PoolExecutorKinds /\ DOMAIN futures # {}
    \/ kind = BatchKind /\ task.set

\* The harness calls issue_query in this step.
IssueQueryCalled == Len(issued') = Len(issued) + 1

\* C5: in every pool-backed runner an issue_query call made while the runner
\* is Pending fails at once (AssertionError), submits no work and leaves the
\* stored callback of the batch before as it is.
C5_PendingRejects ==
    [][(IssueQueryCalled /\ Pending) =>
          /\ issued'[Len(issued')].outcome = "AssertionError"
          /\ last' = [op |-> "issue_query", outcome |-> "AssertionError"]
          /\ th'[MainThread].pc = "idle"
          /\ UNCHANGED <<callback_fn, futures, fut, work_queue, task, calls>>]_vars

\* A second issue_query has been rejected while the first batch's handles
\* are in the table.
C5_Witness ==
    /\ Len(issued) = 2
    /\ issued[1].outcome = "ok"
    /\ issued[2].outcome = "AssertionError"
    /\ Pending
    /\ callback_fn = 1

\* ------------------------------------------------------------------- C6
\* The whole batch's results, computed from what was issued.
BatchResult(b) ==
    [q \in Keys(issued[b].queries) |-> Predict(InputOf(b, q)).val]

\* flush_queries returns from `self.task.get()` in this step.
FlushGot == th[MainThread].pc = "get" /\ th'[MainThread].pc = "idle"

\* C6: ModelRunnerMultiProcessingPool invokes a callback only in
\* flush_queries, never in issue_query; a flush_queries whose predictions
\* all succeeded invokes the callback exactly once, with one mapping whose
\* keys are the batch's QueryIds and whose values are predict of their inputs.
C6_BatchDelivery ==
    [][kind = BatchKind =>
          /\ calls' # calls => FlushGot /\ ~Failed(task)
          /\ (FlushGot /\ ~Failed(task)) =>
                /\ \A q \in Keys(task.items) : Predict(InputOf(task.batch, q)).status = "ok"
                /\ calls' = Append(calls, [cb |-> task.batch,
                                           arg |-> BatchResult(task.batch),
                                           batch |-> task.batch])]_vars

\* A batch of two queries has been flushed to its callback.
C6_Witness ==
    /\ kind = BatchKind
    /\ last = [op |-> "flush_queries", outcome |-> "ok"]
    /\ Len(calls) = 1
    /\ DOMAIN calls[1].arg = {1, 2}

\* ------------------------------------------------------------------- C7
\* ModelRunnerMultiProcessingPool is Idle: no task and no callback stored.
Idle == ~task.set /\ callback_fn = 0

\* C7: flush_queries called on an Idle ModelRunnerMultiProcessingPool fails
\* (AttributeError), invokes no callback and leaves the runner Idle.
C7_FlushIdleFails ==
    [][(FlushQueries /\ Idle) =>
          /\ last' = [op |-> "flush_queries", outcome |-> "AttributeError"]
          /\ th'[MainThread].pc = "idle"
          /\ calls' = calls
          /\ Idle']_vars

\* flush_queries has failed on a runner that had flushed its batch before.
C7_Witness ==
    /\ kind = BatchKind
    /\ last = [op |-> "flush_queries", outcome |-> "AttributeError"]
    /\ Idle
    /\ Len(calls) = 1

\* ------------------------------------------------------------------- C8
\* C8: every flush_queries call made while a batch is pending leaves the
\* runner Idle when it ends, whatever the predictions and the callback did.
C8_FlushLeavesIdle ==
    [][(kind = BatchKind /\ FlushGot) => Idle']_vars

\* ------------------------------------------------------------------- C9
\* release() has been called, and the runner is not acquired again.
Released ==
    CASE kind \in PoolExecutorKinds -> executor = "shutdown"
      [] kind = BatchKind -> pool = "terminated"
      [] kind = RayKind -> pool = "shutdown"
      [] OTHER -> last.op = "__exit__"

\* QueryId q of batch b is in flight: submitted, and its callback not invoked.
\* A released runner takes no query, so what is in flight while the runner is
\* Released was in flight when release() was called.
InFlight(b, q) ==
    /\ Deliveries(b, q) = {}
    /\ CASE kind \in PoolExecutorKinds ->
              \E f \in Units(b) : fut[f].qid = q
         [] kind = BatchKind ->
              task.set /\ task.batch = b /\ q \in Keys(task.items)
         [] kind = RayKind ->
              \/ \E i \in 1..Len(actors.inflight) :
                    actors.inflight[i].batch = b /\ actors.inflight[i].item[1] = q
              \/ \E i \in 1..Len(actors.pending) :
                    actors.pending[i].batch = b /\ actors.pending[i].item[1] = q
         [] OTHER -> FALSE

\* C9: in every runner variant release() discards what is in flight: a query
\* that is in flight when release() is called never has its callback invoked,
\* neither during release nor after it.
C9_ReleaseDiscards ==
    [][Released =>
          \A i \in (Len(calls) + 1)..Len(calls') :
              \A q \in DOMAIN calls'[i].arg : ~InFlight(calls'[i].batch, q)]_vars

C11_FailedBatchNotDelivered ==
    [][kind = BatchKind =>
          /\ (FlushGot /\ Failed(task)) =>
                /\ last' = [op |-> "flush_queries", outcome |-> "PredictionError"]
                /\ calls' = calls
          /\ \A i \in 1..Len(calls') :
                \A q \in Keys(issued'[calls'[i].batch].queries) :
                    Predict(InputOf(calls'[i].batch, q)).status = "ok"]_vars

\* flush_queries has failed on a batch whose first prediction failed and
\* whose second succeeded; nothing was delivered.
C11_Witness ==
    /\ kind = BatchKind
    /\ last = [op |-> "flush_queries", outcome |-> "PredictionError"]
    /\ task.items = << <<1, FailInput>>, <<2, 2>> >>
    /\ task.results[2] = Value(12)
    /\ calls = <<>>

\* ------------------------------------------------------------------- C12
\* C12: ModelRunnerThreadPoolExecutorWithTLS: whenever a worker thread runs
\* the predictor, it finds the Model that this thread's initializer created,
\* whatever the other worker threads have done in between.
C12_OwnThreadModel ==
    kind = TLSKind =>
        \A t \in Workers : th[t].pc = "run" => th[t].model = ModelOf(t)

\* ------------------------------------------------------------------- C13
\* The worker threads whose initializer has created its Model.
Initialized == {t \in Workers : th[t].pc \notin {"unborn", "init", "create"}}

\* __exit__ of a ModelRunnerPoolExecutor has returned.
ReleaseReturned ==
    /\ kind \in PoolExecutorKinds
    /\ executor = "shutdown"
    /\ th[MainThread].pc # "shutdown"

\* C13 as claimed: over the lifetime of a ModelRunnerThreadPoolExecutorWithTLS
\* that has served a batch, as many Models are created as max_concurrency.
C13_ModelsEqualConcurrency ==
    (/\ kind = TLSKind
     /\ ReleaseReturned
     /\ \E b \in 1..Len(issued) :
           issued[b].outcome = "ok" /\ issued[b].queries # <<>>)
        => nmodels = max_concurrency

\* C13 amended: each worker thread of a
\* ModelRunnerThreadPoolExecutorWithTLS creates exactly one Model, in its
\* initializer; an executor starts a worker thread only in a submit that
\* finds no worker released as idle, so the Models created are as many as
\* the worker threads started: at most max_concurrency for every acquire and
\* at most the queries submitted, however many batches are issued.
C13_ModelsPerStartedWorker ==
    kind = TLSKind =>
        /\ nmodels = Cardinality(Initialized)
        /\ \A t \in Workers :
              th[t].pc # "unborn" => GenOf(t) <= gen /\ SlotOf(t) <= max_concurrency
        /\ nmodels <= gen * max_concurrency
        /\ nmodels <= Len(fut)

\* Two worker threads of one executor have served two batches of one query
\* each, and the runner is released: the second submit found the first
\* worker not released as idle yet.
C13_Witness ==
    /\ kind = TLSKind
    /\ max_concurrency = 2
    /\ gen = 1
    /\ ReleaseReturned
    /\ Len(issued) = 2
    /\ Len(issued[1].queries) = 1
    /\ Len(fut) = 2
    /\ nmodels = 2

\* ------------------------------------------------------------------- C14
\* The runner is not acquired, or it is released.
NotAcquired ==
    \/ kind \in PoolExecutorKinds /\ executor # "running"
    \/ kind = BatchKind /\ pool # "running"

\* An issue_query call ends in this step.
IssueQueryEnds == last'.op = "issue_query" /\ issued' # issued

\* C14: in the pool executor runners and ModelRunnerMultiProcessingPool an
\* issue_query call made before __enter__ or after __exit__ fails: it does
\* not return normally, it submits no work and invokes no callback.
C14_UnacquiredFails ==
    [][(NotAcquired /\ IssueQueryEnds) =>
          /\ last'.outcome # "ok"
          /\ fut' = fut
          /\ task' = task
          /\ calls' = calls]_vars

\* ------------------------------------------------------------------- C15
\* C15: ModelRunnerRay.issue_query blocks for its batch: callbacks are invoked
\* only inside issue_query calls, each for a query of the call that is
\* running; when a call returns, the callback it was given has been invoked
\* exactly once for every QueryId of the batch, each time with the
\* single-entry mapping {QueryId: predict(ModelInput)} that one of the
\* max_concurrency actors computed.
C15_RayBatchBlocking ==
    [][kind = RayKind =>
          LET b == Len(issued')
              new == SubSeq(calls', Len(calls) + 1, Len(calls'))
              taken == SubSeq(got', Len(got) + 1, Len(got'))
          IN /\ calls' # calls =>
                   /\ IssueQueryCalled
                   /\ SubSeq(calls', 1, Len(calls)) = calls
                   /\ \A j \in 1..Len(new) : new[j].batch = b
             /\ (IssueQueryCalled /\ last'.outcome = "ok") =>
                   LET queries == issued'[b].queries
                   IN /\ Len(new) = Len(queries)
                      /\ Len(taken) = Len(new)
                      /\ \A i \in 1..Len(queries) :
                            Cardinality({j \in 1..Len(new) :
                                queries[i][1] \in DOMAIN new[j].arg}) = 1
                      /\ \A j \in 1..Len(new) :
                            /\ new[j].cb = b
                            /\ \E i \in 1..Len(queries) :
                                  /\ Predict(queries[i][2]).status = "ok"
                                  /\ new[j].arg =
                                        (queries[i][1] :> Predict(queries[i][2]).val)
                            /\ taken[j].qid \in DOMAIN new[j].arg
                            /\ taken[j].batch = b
                            /\ taken[j].actor \in RayActors(gen)]_vars

\* One actor has served a batch of two queries, after a first call that its
\* callback ended at the first of two results.
C15_Witness ==
    /\ kind = RayKind
    /\ max_concurrency = 1
    /\ Len(issued) = 2
    /\ issued[1].outcome = "CallbackError"
    /\ Len(issued[1].queries) = 2
    /\ issued[2].outcome = "ok"
    /\ Len(issued[2].queries) = 2
    /\ Len(calls) = 3

\* ------------------------------------------------------------------- C16
\* Every unit of work submitted has completed and its completion hook has
\* run, and the harness is not inside a call.
AllHooksRun ==
    /\ kind \in PoolExecutorKinds
    /\ th[MainThread].pc = "idle"
    /\ \A f \in 1..Len(fut) : fut[f].state = "FINISHED" /\ ~InHook(f)

\* C16: in the pool executor runners, once the completion hooks of all units
\* of work have run, the handle table is empty, whether the predictions
\* succeeded or failed, and an issue_query call made then is not rejected as
\* Pending.
C16_DrainedIsIdle ==
    [][/\ AllHooksRun' => DOMAIN futures' = {}
       /\ (AllHooksRun /\ IssueQueryCalled) =>
             issued'[Len(issued')].outcome # "AssertionError"]_vars

\* A batch whose only prediction failed has drained, and the next issue_query
\* has been accepted.
C16_Witness ==
    /\ kind \in PoolExecutorKinds
    /\ Len(issued) = 2
    /\ issued[1] = [queries |-> << <<2, FailInput>> >>, outcome |-> "ok"]
    /\ <<1, "PredictionError">> \in logged
    /\ issued[2].outcome = "ok"
    /\ Len(issued[2].queries) = 1

\* ------------------------------------------------------------------- C17
\* C17: in the pool executor runners every result is passed to the callback
\* of the issue_query call that submitted its query, never to the callback
\* of a later call.
C17_OwnCallback ==
    kind \in PoolExecutorKinds =>
        \A i \in 1..Len(calls) : calls[i].cb = calls[i].batch

\* ------------------------------------------------------------------- C18
\* C18: an issue_query call that fails leaves the stored callback as it was:
\* the callback of a failed call is never the stored one.
C18_FailedCallNoEffect ==
    kind \in PoolExecutorKinds \cup {BatchKind} =>
        \A b \in 1..Len(issued) :
            issued[b].outcome \notin {"running", "ok"} => callback_fn # b

\* ------------------------------------------------------------------- C19
\* C19: the predictions of a ModelRunnerProcessPoolExecutor or
\* ModelRunnerMultiProcessingPool are computed by the Model that its own
\* ModelFactory created, also when a second runner of the class has been
\* constructed.
C19_OwnFactoryModel ==
    kind \in ClassModelKinds =>
        /\ \A f \in 1..Len(fut) : fut[f].by \in {NoModel, OwnModel}
        /\ \A i \in 1..Len(task.by) : task.by[i] \in {NoModel, OwnModel}

\* ------------------------------------------------------------------- C20
\* The threads that are in the completion hook of unit f.
HookThreads(f) ==
    {t \in ThreadIds : th[t].pc \in {"cb_pop", "cb_call"} /\ th[t].f = f}

\* C20: in the pool executor runners every run of the completion hook finds
\* its handle in the table, under its QueryId, and removes it: no pop fails,
\* no unit has its hook run by two threads, and a handle whose hook has
\* popped it is not in the table again.
C20_HookFindsHandle ==
    kind \in PoolExecutorKinds =>
        /\ \A x \in logged : x[2] # "KeyError"
        /\ \A f \in 1..Len(fut) : Cardinality(HookThreads(f)) <= 1
        /\ \A t \in ThreadIds :
              /\ th[t].pc = "cb_pop" =>
                    /\ th[t].f \in DOMAIN futures
                    /\ futures[th[t].f] = fut[th[t].f].qid
              /\ th[t].pc = "cb_call" => th[t].f \notin DOMAIN futures
        /\ \A f \in DOMAIN futures : fut[f].state # "FINISHED" \/ fut[f].cbs
                                      \/ th[MainThread].f = f

\* The first unit of a batch of two completed before issue_query registered
\* its hook: the hook runs in the harness's thread, which has the second
\* query still to submit.
C20_Witness ==
    /\ kind \in PoolExecutorKinds
    /\ th[MainThread].pc = "cb_pop"
    /\ Len(iter) = 2
    /\ fut[th[MainThread].f].state = "FINISHED"

====
